---- MODULE Spec2Model ----
(***************************************************************************)
(* Download manager (DownloadManagerProvider), the /api/pull-stream proxy  *)
(* and the model hooks (useInstalledModels, useRunningModels,              *)
(* useModelsWithState) of the LLManager dashboard.                         *)
(*                                                                         *)
(* One startStream routine runs per startDownload call.  JavaScript runs   *)
(* each routine to its next await without interleaving, so a routine is    *)
(* observed only while it awaits fetch() ("fetch"), awaits reader.read()   *)
(* ("read") or after its finally block ("done").  The lines a chunk holds  *)
(* are applied one per step: where a chunk ends is the network's choice,   *)
(* so every line boundary may be a chunk boundary.                         *)
(*                                                                         *)
(* Spec: the download manager with MaxTasks startDownload calls;           *)
(* SingleTask, FairSingle: the same with one call; Models: the two SWR     *)
(* keys polled against a changing daemon; Join: useModelsWithState over    *)
(* any pair of lists; Stream: one pull stream decoded chunk by chunk;      *)
(* Settings: the saved API URL and the requests the pages send; Chat: one  *)
(* streamed chat answer through the /api/chat handler to handleSubmit.     *)
(***************************************************************************)
EXTENDS Integers, Sequences, FiniteSets, TLC

\* ---------------------------------------------------------------- bounds
MaxTasks == 2
MaxLines == 1
MaxTime == 1
MaxQueue == 1

\* ------------------------------------------------------ values of fields
\* an optional number that is absent (total?, completed?, completedAt?)
Undef == -1
\* an optional string that is absent; JavaScript treats '' and undefined
\* alike wherever the code tests these fields (data.error, data.status ||)
NoStr == ""

Names == {"", "llama3.2"}
Routines == 1..MaxTasks
Times == 0..MaxTime
Ids == Names \X Times

TerminalStatus == {"completed", "error", "cancelled"}
ActiveStatus == {"pending", "downloading"}

\* `${modelName}-${Date.now()}`: the time is the text after the last '-',
\* so the string determines the pair and the pair the string
MakeId(modelName, t) == <<modelName, t>>

\* ---------------------------------------------- the daemon's pull stream
DaemonErrorText == "pull model manifest: file does not exist"
JsonLine(status, total, completed, error) ==
  [json |-> TRUE, status |-> status, total |-> total, completed |-> completed, error |-> error]
PullingLine == JsonLine("pulling manifest", Undef, Undef, NoStr)
HalfLine == JsonLine("downloading", 2, 1, NoStr)
SuccessLine == JsonLine("success", Undef, Undef, NoStr)
ErrorLine == JsonLine(NoStr, Undef, Undef, DaemonErrorText)
BadLine == [json |-> FALSE, status |-> NoStr, total |-> Undef, completed |-> Undef, error |-> NoStr]
DaemonLines == {PullingLine, HalfLine, SuccessLine, ErrorLine, BadLine}
\* what may follow the last newline when the daemon closes: nothing, or a line
NoLine == [json |-> FALSE, status |-> "<empty>", total |-> Undef, completed |-> Undef, error |-> NoStr]
Trailing == DaemonLines \cup {NoLine}

\* ------------------------------------------------ the proxy's SSE events
Event(status, total, completed, percent, done, error) ==
  [status |-> status, total |-> total, completed |-> completed,
   percent |-> percent, done |-> done, error |-> error]

\* Math.round((completed / total) * 100), for completed >= 0 and total > 0
Percent(completed, total) == (200 * completed + total) \div (2 * total)

\* JavaScript truthiness of an optional number: undefined and 0 are falsy
Truthy(n) == n # Undef /\ n # 0

\* the progressData object built for one complete line
FormatProgress(data) ==
  Event(IF data.status # NoStr THEN data.status ELSE "unknown",
        data.total,
        data.completed,
        IF Truthy(data.total) /\ Truthy(data.completed)
          THEN Percent(data.completed, data.total) ELSE Undef,
        data.status = "success",
        data.error)

\* the object written for the data left in the buffer at the end of the stream
FormatRemaining(data) ==
  Event(IF data.status # NoStr THEN data.status ELSE "unknown",
        Undef, Undef, Undef, data.status = "success", NoStr)

\* the completion event the proxy writes after the daemon's stream ended
CompletionEvent == Event("success", Undef, Undef, Undef, TRUE, NoStr)

\* an error event; the outer catch adds done: true
ErrorEvent(msg, done) == Event(NoStr, Undef, Undef, Undef, done, msg)

\* messages of the layers below the download manager
FetchFailedText == "Failed to fetch"
NetworkErrorText == "network error"
ConnRefusedText == "fetch failed"
NotFoundText == "Not Found"
StartFailedText == "Failed to start download"
PullFailedText == "Failed to pull model"
StreamErrorText == "Stream error"
DownloadFailedText == "Download failed"

\* ------------------------------------------------------- the model lists
MaxEpoch == 2
ModelNames == {"A", "B"}

\* sizes are counted in MiB (2^20 bytes), times in milliseconds
DiskSize == 10240
RamSize == 5120
VramSizes == {0, 4096}
\* expires_at of a running model: absent, or a time
ExpiryTimes == {Undef, 1000, 1001}

\* an element of the list GET /api/models answers
InstalledModel(name, size) == [name |-> name, size |-> size]
\* an element of the list GET /api/running answers
RunningModel(model, size, size_vram, expires_at) ==
  [model |-> model, size |-> size, size_vram |-> size_vram, expires_at |-> expires_at]

\* the lists the handlers answer for the models the daemon reports
NameOrder == <<"A", "B">>
InstalledList(S) ==
  LET names == SelectSeq(NameOrder, LAMBDA n : n \in S) IN
  [i \in DOMAIN names |-> InstalledModel(names[i], DiskSize)]
RunningList(S) ==
  LET names == SelectSeq(NameOrder, LAMBDA n : n \in S) IN
  [i \in DOMAIN names |-> RunningModel(names[i], RamSize, 4096, 1001)]

\* what useSWR holds for a key: nothing yet, the body of a 200 answer
\* ({ models }), or the body of an error answer ({ error }), which
\* fetcher's res.json() returns as data all the same; at is the epoch of the
\* daemon's state the answer was made from, error whether the last fetch rejected
NoData == [kind |-> "none", models |-> <<>>, at |-> 0, error |-> FALSE]
ModelsBody(list, t) == [kind |-> "models", models |-> list, at |-> t, error |-> FALSE]
ErrorBody(t) == [kind |-> "error", models |-> <<>>, at |-> t, error |-> FALSE]

VARIABLES
  now,              \* Date.now()
  downloads,        \* the downloads state of the provider
  abortControllers, \* abortControllers.current: id -> routine whose controller it holds, 0: none
  created,          \* number of startDownload calls so far
  rid,              \* rid[r]: the id startDownload returned to the r-th call
  pc,               \* pc[r]: where routine r is suspended
  aborted,          \* aborted[r]: signal.aborted of routine r's AbortController
  px,               \* px[r]: state of the proxy handler serving routine r
  resp,             \* resp[r]: the response head the proxy has sent
  sse,              \* sse[r]: events written by the proxy and not yet read
  closed,           \* closed[r]: the proxy called res.end()
  sent,             \* sent[r]: lines the daemon has sent on r's pull stream
  refreshes,        \* refreshes[r]: mutate('/api/models') calls made by routine r
  requests,         \* requests[r]: pull requests issued for routine r
  hist,             \* hist[r]: what happened below routine r (for the properties)
  epoch,            \* number of changes of the daemon's state so far
  tags,             \* names of the models the daemon has installed (GET /tags)
  ps,               \* names of the models the daemon has loaded (GET /ps)
  installedData,    \* SWR's data for the key '/api/models'
  runningData,      \* SWR's data for the key '/api/running'
  input,            \* the bytes of one pull stream of the daemon
  wire,             \* the chunks of input the proxy's reader.read() has yet to return
  buffer,           \* the proxy's buffer
  out,              \* the events the proxy has written for this stream
  phase,            \* "off", "reading", or "ended" after the proxy's res.end()
  applied,          \* number of events of out the page has processed
  item,             \* the task the page updates from these events
  apiUrl,           \* settings.apiUrl in localStorage, NoStr when nothing is stored
  routed            \* the last request of the dashboard and the daemon URL it reached

dmVars == <<now, downloads, abortControllers, created, rid, pc, aborted, px, resp,
            sse, closed, sent, refreshes, requests, hist>>
aggVars == <<epoch, tags, ps, installedData, runningData>>
streamVars == <<input, wire, buffer, out, phase, applied, item>>
settingsVars == <<apiUrl, routed>>
vars == <<dmVars, aggVars, streamVars, settingsVars>>

\* success/error: the daemon's stream held a status 'success' / an error object;
\* initFail: the message with which the initiating request failed;
\* asked: cancelDownload aborted the routine while its task was Downloading
\* netError: the connection to the proxy broke while the routine was reading
NoHist == [success |-> FALSE, error |-> FALSE, initFail |-> NoStr, asked |-> FALSE,
           netError |-> FALSE]

\* the provider after its first render
DownloadsInit ==
  /\ now = 0
  /\ downloads = <<>>
  /\ abortControllers = [i \in Ids |-> 0]
  /\ created = 0
  /\ rid = [r \in Routines |-> MakeId("", 0)]
  /\ pc = [r \in Routines |-> "idle"]
  /\ aborted = [r \in Routines |-> FALSE]
  /\ px = [r \in Routines |-> "idle"]
  /\ resp = [r \in Routines |-> "none"]
  /\ sse = [r \in Routines |-> <<>>]
  /\ closed = [r \in Routines |-> FALSE]
  /\ sent = [r \in Routines |-> 0]
  /\ refreshes = [r \in Routines |-> 0]
  /\ requests = [r \in Routines |-> 0]
  /\ hist = [r \in Routines |-> NoHist]

\* the daemon before any change, as the proxy's handlers see it
DaemonInit ==
  /\ epoch = 0
  /\ tags = {}
  /\ ps = {}

\* no pull stream is followed byte by byte
StreamOff ==
  /\ input = <<>>
  /\ wire = <<>>
  /\ buffer = <<>>
  /\ out = <<>>
  /\ phase = "off"
  /\ applied = 0
  /\ item = <<>>

\* nothing is stored under 'ollama-dashboard-settings', no request was made
SettingsInit ==
  /\ apiUrl = NoStr
  /\ routed = [kind |-> "none", saved |-> NoStr, target |-> NoStr]

Init ==
  /\ DownloadsInit
  /\ DaemonInit
  /\ installedData = NoData
  /\ runningData = NoData
  /\ StreamOff
  /\ SettingsInit

\* ------------------------------------------------------ download manager
NewDownload(r, id, modelName) ==
  [task |-> r, id |-> id, modelName |-> modelName, status |-> "pending",
   statusText |-> "Starting download...", progress |-> 0, total |-> Undef,
   completed |-> Undef, error |-> NoStr, startedAt |-> now, completedAt |-> Undef]

\* updateDownload: prev.map((d) => (d.id === id ? { ...d, ...updates } : d)),
\* merged[i] being { ...ds[i], ...updates }
UpdateDownload(ds, id, merged) ==
  [i \in DOMAIN ds |-> IF ds[i].id = id THEN merged[i] ELSE ds[i]]

\* the finally block: abortControllers.current.delete(id)
DeleteController(id) == [abortControllers EXCEPT ![id] = 0]

\* the updates of the data.error branch
ErrorUpdates(d, msg) ==
  [d EXCEPT !.status = "error", !.statusText = msg, !.error = msg, !.completedAt = now]

\* the updates object built for an event without error
ProgressUpdates(d, e) ==
  LET success == e.done /\ e.status = "success" IN
  [d EXCEPT !.statusText = IF success THEN "Download complete!"
                           ELSE IF e.status # NoStr THEN e.status ELSE "Downloading...",
            !.progress = IF success THEN 100 ELSE IF e.percent # Undef THEN e.percent ELSE @,
            !.total = IF e.total # Undef THEN e.total ELSE @,
            !.completed = IF e.completed # Undef THEN e.completed ELSE @,
            !.status = IF success THEN "completed" ELSE @,
            !.completedAt = IF success THEN now ELSE @]

\* the updater run after the read loop: "Mark as completed if not already done"
MarkCompleted(d, id) ==
  IF d.id = id /\ d.status = "downloading"
    THEN [d EXCEPT !.status = "completed", !.progress = 100,
                   !.statusText = "Download complete!", !.completedAt = now]
    ELSE d

\* the AbortError branch of the catch
CancelledUpdates(d) ==
  [d EXCEPT !.status = "cancelled", !.statusText = "Download cancelled", !.completedAt = now]

\* a catch that reports its fixed text instead of error.message
FailedUpdatesGeneric(d, msg) ==
  [d EXCEPT !.status = "error", !.statusText = DownloadFailedText,
            !.error = DownloadFailedText, !.completedAt = now]

\* the other branch of the catch: error.message || 'Download failed'
FailedUpdates(d, msg) ==
  [d EXCEPT !.status = "error",
            !.statusText = IF msg # NoStr THEN msg ELSE DownloadFailedText,
            !.error = msg, !.completedAt = now]

\* a write of the proxy; what is written once the routine has ended is never read
Written(r, evs) == IF pc[r] = "done" THEN sse[r] ELSE sse[r] \o evs

Tick ==
  /\ now < MaxTime
  /\ now' = now + 1
  /\ UNCHANGED <<downloads, abortControllers, created, rid, pc, aborted, px, resp,
                 sse, closed, sent, refreshes, requests, hist>>
  /\ UNCHANGED <<aggVars, streamVars, settingsVars>>

\* startDownload(modelName), up to the first await of startStream
StartDownload(modelName) ==
  /\ created < MaxTasks
  /\ LET r == created + 1
         id == MakeId(modelName, now) IN
     /\ created' = r
     /\ rid' = [rid EXCEPT ![r] = id]
     /\ abortControllers' = [abortControllers EXCEPT ![id] = r]
     /\ downloads' = Append(downloads, NewDownload(r, id, modelName))
     /\ pc' = [pc EXCEPT ![r] = "fetch"]
     /\ px' = [px EXCEPT ![r] = "request"]
     /\ requests' = [requests EXCEPT ![r] = @ + 1]
  /\ UNCHANGED <<now, aborted, resp, sse, closed, sent, refreshes, hist>>
  /\ UNCHANGED <<aggVars, streamVars, settingsVars>>

ModelOf(r) == rid[r][1]
\* ------------------------------------------------ POST /api/pull-stream
\* the daemon's answers to a pull it refuses: a JSON body with its error, or
\* a body that is no JSON under a status line
Rejections == {[json |-> TRUE, error |-> DaemonErrorText, statusText |-> NotFoundText],
               [json |-> FALSE, error |-> NoStr, statusText |-> NotFoundText]}

\* errorMessage of the !response.ok branch
RejectMessage(body) ==
  IF body.json
    THEN IF body.error # NoStr THEN body.error ELSE PullFailedText
    ELSE IF body.statusText # NoStr THEN body.statusText ELSE PullFailedText

\* res.write of evs, then res.end() when end; the first write sends the head
ProxyWrites(r, evs, end) ==
  /\ sse' = [sse EXCEPT ![r] = Written(r, evs)]
  /\ resp' = [resp EXCEPT ![r] = IF evs # <<>> \/ end THEN "ok" ELSE @]
  /\ closed' = [closed EXCEPT ![r] = end]
  /\ px' = [px EXCEPT ![r] = IF end THEN "ended" ELSE @]

\* PullStreamRequestSchema.safeParse fails: z.string().min(1)
ProxyInvalid(r) ==
  /\ px[r] = "request"
  /\ ModelOf(r) = ""
  /\ resp' = [resp EXCEPT ![r] = "bad"]
  /\ closed' = [closed EXCEPT ![r] = TRUE]
  /\ px' = [px EXCEPT ![r] = "ended"]
  /\ UNCHANGED <<now, downloads, abortControllers, created, rid, pc, aborted, sse,
                 sent, refreshes, requests, hist>>
  /\ UNCHANGED <<aggVars, streamVars, settingsVars>>

\* fetch(`${OLLAMA_BASE_URL}/pull`) throws: the outer catch
ProxyUnreachable(r) ==
  /\ px[r] = "request"
  /\ ModelOf(r) # ""
  /\ ProxyWrites(r, <<ErrorEvent(ConnRefusedText, TRUE)>>, TRUE)
  /\ hist' = [hist EXCEPT ![r].initFail = ConnRefusedText]
  /\ UNCHANGED <<now, downloads, abortControllers, created, rid, pc, aborted,
                 sent, refreshes, requests>>
  /\ UNCHANGED <<aggVars, streamVars, settingsVars>>

\* the daemon answers the pull with a non-success status
ProxyRejected(r, body) ==
  /\ px[r] = "request"
  /\ ModelOf(r) # ""
  /\ ProxyWrites(r, <<ErrorEvent(RejectMessage(body), FALSE)>>, TRUE)
  /\ hist' = [hist EXCEPT ![r].initFail = RejectMessage(body)]
  /\ UNCHANGED <<now, downloads, abortControllers, created, rid, pc, aborted,
                 sent, refreshes, requests>>
  /\ UNCHANGED <<aggVars, streamVars, settingsVars>>

\* the daemon accepts the pull: the proxy starts reading its stream
ProxyAccepted(r) ==
  /\ px[r] = "request"
  /\ ModelOf(r) # ""
  /\ px' = [px EXCEPT ![r] = "stream"]
  /\ UNCHANGED <<now, downloads, abortControllers, created, rid, pc, aborted, resp,
                 sse, closed, sent, refreshes, requests, hist>>
  /\ UNCHANGED <<aggVars, streamVars, settingsVars>>

\* the history of a routine is kept until the routine ends
Seen(r, data) ==
  IF pc[r] = "done" THEN hist[r] ELSE
  [hist[r] EXCEPT !.success = @ \/ (data.json /\ data.status = "success"),
            !.error = @ \/ (data.json /\ data.error # NoStr)]

\* one complete line of the daemon's stream
ProxyLine(r, data) ==
  /\ px[r] = "stream"
  /\ sent[r] < MaxLines
  /\ Len(sse[r]) < MaxQueue
  /\ sent' = [sent EXCEPT ![r] = @ + 1]
  /\ ProxyWrites(r, IF data.json THEN <<FormatProgress(data)>> ELSE <<>>, FALSE)
  /\ hist' = [hist EXCEPT ![r] = Seen(r, data)]
  /\ UNCHANGED <<now, downloads, abortControllers, created, rid, pc, aborted,
                 refreshes, requests>>
  /\ UNCHANGED <<aggVars, streamVars, settingsVars>>

\* the daemon closes its stream, rest being the data after the last newline
ProxyEnd(r, rest) ==
  /\ px[r] = "stream"
  /\ Len(sse[r]) < MaxQueue
  /\ ProxyWrites(r, (IF rest.json THEN <<FormatRemaining(rest)>> ELSE <<>>)
                    \o <<CompletionEvent>>, TRUE)
  /\ hist' = [hist EXCEPT ![r] = Seen(r, rest)]
  /\ UNCHANGED <<now, downloads, abortControllers, created, rid, pc, aborted,
                 sent, refreshes, requests>>
  /\ UNCHANGED <<aggVars, streamVars, settingsVars>>

\* reader.read() throws: streamError.message || 'Stream error'
ProxyStreamError(r) ==
  /\ px[r] = "stream"
  /\ Len(sse[r]) < MaxQueue
  /\ ProxyWrites(r, <<ErrorEvent(StreamErrorText, FALSE)>>, TRUE)
  /\ UNCHANGED <<now, downloads, abortControllers, created, rid, pc, aborted,
                 sent, refreshes, requests, hist>>
  /\ UNCHANGED <<aggVars, streamVars, settingsVars>>

\* ------------------------------------------------------- startStream
\* the routine ends: its finally block; nothing reads the response any more
Finally(r) ==
  /\ pc' = [pc EXCEPT ![r] = "done"]
  /\ abortControllers' = DeleteController(rid[r])
  /\ sse' = [sse EXCEPT ![r] = <<>>]

\* the catch block for an error that is no AbortError
Catch(r, msg) ==
  /\ downloads' = UpdateDownload(downloads, rid[r],
                   [i \in DOMAIN downloads |-> FailedUpdates(downloads[i], msg)])
  /\ Finally(r)

\* fetch('/api/pull-stream') rejects: the request never reached the proxy
ClientFetchFail(r) ==
  /\ pc[r] = "fetch"
  /\ px[r] = "request"
  /\ px' = [px EXCEPT ![r] = "ended"]
  /\ Catch(r, FetchFailedText)
  /\ hist' = [hist EXCEPT ![r].initFail = FetchFailedText]
  /\ UNCHANGED <<now, created, rid, aborted, resp, closed, sent, refreshes, requests>>
  /\ UNCHANGED <<aggVars, streamVars, settingsVars>>

\* !response.ok: throw new Error('Failed to start download')
ClientNotOk(r) ==
  /\ pc[r] = "fetch"
  /\ resp[r] = "bad"
  /\ Catch(r, StartFailedText)
  /\ hist' = [hist EXCEPT ![r].initFail = StartFailedText]
  /\ UNCHANGED <<now, created, rid, aborted, px, resp, closed, sent, refreshes, requests>>
  /\ UNCHANGED <<aggVars, streamVars, settingsVars>>

\* the response head arrived with a success status
ClientFetchOk(r) ==
  /\ pc[r] = "fetch"
  /\ resp[r] = "ok"
  /\ downloads' = UpdateDownload(downloads, rid[r],
                   [i \in DOMAIN downloads |-> [downloads[i] EXCEPT !.status = "downloading"]])
  /\ pc' = [pc EXCEPT ![r] = "read"]
  /\ UNCHANGED <<now, abortControllers, created, rid, aborted, px, resp, sse, closed,
                 sent, refreshes, requests, hist>>
  /\ UNCHANGED <<aggVars, streamVars, settingsVars>>

\* one 'data: ' line of a chunk
ClientEvent(r) ==
  /\ pc[r] = "read"
  /\ sse[r] # <<>>
  /\ LET e == Head(sse[r]) IN
     /\ IF e.error # NoStr
          THEN /\ downloads' = UpdateDownload(downloads, rid[r],
                    [i \in DOMAIN downloads |-> ErrorUpdates(downloads[i], e.error)])
               /\ Finally(r)
               /\ UNCHANGED refreshes
          ELSE /\ downloads' = UpdateDownload(downloads, rid[r],
                    [i \in DOMAIN downloads |-> ProgressUpdates(downloads[i], e)])
               /\ sse' = [sse EXCEPT ![r] = Tail(@)]
               /\ refreshes' = [refreshes EXCEPT ![r] =
                                  IF e.done /\ e.status = "success" THEN @ + 1 ELSE @]
               /\ UNCHANGED <<pc, abortControllers>>
  /\ UNCHANGED <<now, created, rid, aborted, px, resp, closed, sent, requests, hist>>
  /\ UNCHANGED <<aggVars, streamVars, settingsVars>>

\* a routine that keeps waiting for another chunk after the stream was closed
ClientStreamEndWaits(r) ==
  /\ pc[r] = "read"
  /\ sse[r] = <<>> /\ closed[r]
  /\ UNCHANGED vars

\* reader.read() reports done: the updater after the loop, then finally
ClientStreamEnd(r) ==
  /\ pc[r] = "read"
  /\ sse[r] = <<>> /\ closed[r]
  /\ downloads' = [i \in DOMAIN downloads |-> MarkCompleted(downloads[i], rid[r])]
  /\ refreshes' = [refreshes EXCEPT ![r] = @ + Cardinality(
        {i \in DOMAIN downloads : downloads[i].id = rid[r] /\ downloads[i].status = "downloading"})]
  /\ Finally(r)
  /\ UNCHANGED <<now, created, rid, aborted, px, resp, closed, sent, requests, hist>>
  /\ UNCHANGED <<aggVars, streamVars, settingsVars>>

\* reader.read() rejects: the connection to the proxy broke
ClientReadError(r) ==
  /\ pc[r] = "read"
  /\ ~(sse[r] = <<>> /\ closed[r])
  /\ Catch(r, NetworkErrorText)
  /\ hist' = [hist EXCEPT ![r].netError = TRUE]
  /\ UNCHANGED <<now, created, rid, aborted, px, resp, closed, sent, refreshes, requests>>
  /\ UNCHANGED <<aggVars, streamVars, settingsVars>>

\* ----------------------------------------------- operations of the context
Downloading(r) ==
  \E i \in DOMAIN downloads : downloads[i].task = r /\ downloads[i].status = "downloading"

\* a catch of the AbortError that also refreshes the model list
CatchAbortRefreshing(r, ds) ==
  /\ downloads' = UpdateDownload(ds, rid[r], [i \in DOMAIN ds |-> CancelledUpdates(ds[i])])
  /\ refreshes' = [refreshes EXCEPT ![r] = @ + 1]
  /\ Finally(r)

\* the pending fetch() or read() of routine r rejects with the AbortError: the
\* catch and the finally block, applied to the list ds.  abort() rejects the
\* pending promise at once and the routine resumes as a microtask, before any
\* other task of the page runs, so this is part of the step that aborts.
CatchAbort(r, ds) ==
  /\ downloads' = UpdateDownload(ds, rid[r], [i \in DOMAIN ds |-> CancelledUpdates(ds[i])])
  /\ UNCHANGED refreshes
  /\ Finally(r)

\* cancelDownload(id) followed by setDownloads(ds): controller.abort() and
\* abortControllers.current.delete(id) when a controller is held for id
Abort(id, ds) ==
  LET r == abortControllers[id] IN
  IF r = 0
    THEN /\ downloads' = ds
         /\ UNCHANGED <<abortControllers, pc, aborted, sse, refreshes, hist>>
    ELSE /\ aborted' = [aborted EXCEPT ![r] = TRUE]
         /\ hist' = [hist EXCEPT ![r].asked = @ \/ Downloading(r)]
         /\ CatchAbort(r, ds)

CancelDownload(id) ==
  /\ Abort(id, downloads)
  /\ UNCHANGED <<now, created, rid, px, resp, closed, sent, requests>>
  /\ UNCHANGED <<aggVars, streamVars, settingsVars>>

ClearDownload(id) ==
  /\ Abort(id, SelectSeq(downloads, LAMBDA d: d.id # id))
  /\ UNCHANGED <<now, created, rid, px, resp, closed, sent, requests>>
  /\ UNCHANGED <<aggVars, streamVars, settingsVars>>

\* a filter that forgets the cancelled tasks
ClearCompletedOrFailed ==
  /\ downloads' = SelectSeq(downloads, LAMBDA d: d.status \notin {"completed", "error"})
  /\ UNCHANGED <<now, abortControllers, created, rid, pc, aborted, px, resp, sse, closed,
                 sent, refreshes, requests, hist>>
  /\ UNCHANGED <<aggVars, streamVars, settingsVars>>

\* a test that looks at 'downloading' only
IsDownloadingOnly(modelName) ==
  \E i \in DOMAIN downloads :
    downloads[i].modelName = modelName /\ downloads[i].status = "downloading"

\* isDownloading(modelName): downloads.some(...)
IsDownloading(modelName) ==
  \E i \in DOMAIN downloads :
    /\ downloads[i].modelName = modelName
    /\ (downloads[i].status = "pending" \/ downloads[i].status = "downloading")

ClearCompleted ==
  /\ downloads' = SelectSeq(downloads, LAMBDA d: d.status \notin TerminalStatus)
  /\ UNCHANGED <<now, abortControllers, created, rid, pc, aborted, px, resp, sse, closed,
                 sent, refreshes, requests, hist>>
  /\ UNCHANGED <<aggVars, streamVars, settingsVars>>

DownloadStep ==
  \/ Tick
  \/ \E n \in Names : StartDownload(n)
  \/ \E id \in Ids : CancelDownload(id) \/ ClearDownload(id)
  \/ ClearCompleted
  \/ \E r \in Routines :
       \/ ProxyInvalid(r) \/ ProxyUnreachable(r) \/ ProxyAccepted(r) \/ ProxyStreamError(r)
       \/ \E body \in Rejections : ProxyRejected(r, body)
       \/ \E data \in DaemonLines : ProxyLine(r, data)
       \/ \E rest \in Trailing : ProxyEnd(r, rest)
       \/ ClientFetchFail(r) \/ ClientNotOk(r) \/ ClientFetchOk(r) \/ ClientEvent(r)
       \/ ClientStreamEnd(r) \/ ClientReadError(r)

Next == DownloadStep

Spec == Init /\ [][Next]_vars
\* one download manager with a single startDownload call
SingleStep ==
  \/ Tick
  \/ \E n \in Names : created = 0 /\ StartDownload(n)
  \/ \E id \in Ids : CancelDownload(id) \/ ClearDownload(id)
  \/ ClearCompleted
  \/ ProxyInvalid(1) \/ ProxyUnreachable(1) \/ ProxyAccepted(1) \/ ProxyStreamError(1)
  \/ \E body \in Rejections : ProxyRejected(1, body)
  \/ \E data \in DaemonLines : ProxyLine(1, data)
  \/ \E rest \in Trailing : ProxyEnd(1, rest)
  \/ ClientFetchFail(1) \/ ClientNotOk(1) \/ ClientFetchOk(1) \/ ClientEvent(1)
  \/ ClientStreamEnd(1) \/ ClientReadError(1)

NextSingle == SingleStep

SingleTask == Init /\ [][NextSingle]_vars


\* The page's event loop runs a routine whose awaited response or chunk has
\* arrived, and the proxy's handler answers a request it has received.  What
\* the daemon sends on an open pull stream, and when it closes it, is up to the
\* daemon and the network: no step of the program makes that happen.
PageSteps ==
  ClientNotOk(1) \/ ClientFetchOk(1) \/ ClientEvent(1) \/ ClientStreamEnd(1)
HandlerSteps ==
  \/ ProxyInvalid(1) \/ ProxyUnreachable(1) \/ ProxyAccepted(1)
  \/ \E body \in Rejections : ProxyRejected(1, body)

FairSingle ==
  Init /\ [][NextSingle]_vars /\ WF_vars(PageSteps) /\ WF_vars(HandlerSteps)

\* ------------------------------------------------------------ useModels
\* data?.models || []
ModelsOf(data) == IF data.kind = "models" THEN data.models ELSE <<>>

\* round(bytes / 1024 ** 3, 3) of a size of m MiB, in thousandths of a GB:
\* Math.round(m * 1000 / 1024)
BytesToGB(m) == (2000 * m + 1024) \div 2048

\* getTimeUntilExpiry(expiresAt) at Date.now() = t, Undef standing for null
GetTimeUntilExpiry(expiresAt, t) ==
  IF expiresAt = Undef THEN Undef
  ELSE LET diff == (expiresAt - t) \div 1000 IN
       IF diff > 0 THEN diff ELSE Undef

\* runningMap.get(name): the last record set under that key, j = 0 when none
RunningIndex(running, name) ==
  LET js == {j \in DOMAIN running : running[j].model = name} IN
  IF js = {} THEN 0 ELSE CHOOSE j \in js : \A k \in js : k <= j

\* a join that reads the VRAM size from the RAM field
ModelsWithStateRam(installed, running, t) ==
  [i \in DOMAIN installed |->
     LET j == RunningIndex(running, installed[i].name) IN
     [name |-> installed[i].name,
      size |-> installed[i].size,
      disk_gb |-> BytesToGB(installed[i].size),
      loaded |-> j # 0,
      vram_gb |-> IF j # 0 THEN BytesToGB(running[j].size) ELSE Undef,
      ram_gb |-> IF j # 0 THEN BytesToGB(running[j].size) ELSE Undef,
      expires_at |-> IF j # 0 THEN running[j].expires_at ELSE Undef,
      expires_in_seconds |->
        IF j # 0 THEN GetTimeUntilExpiry(running[j].expires_at, t) ELSE Undef]]

\* useModelsWithState rendered at Date.now() = t: installed.map(...) against
\* the map of running models; an absent field and null are both Undef
ModelsWithState(installed, running, t) ==
  [i \in DOMAIN installed |->
     LET j == RunningIndex(running, installed[i].name) IN
     [name |-> installed[i].name,
      size |-> installed[i].size,
      disk_gb |-> BytesToGB(installed[i].size),
      loaded |-> j # 0,
      vram_gb |-> IF j # 0 THEN BytesToGB(running[j].size_vram) ELSE Undef,
      ram_gb |-> IF j # 0 THEN BytesToGB(running[j].size) ELSE Undef,
      expires_at |-> IF j # 0 THEN running[j].expires_at ELSE Undef,
      expires_in_seconds |->
        IF j # 0 THEN GetTimeUntilExpiry(running[j].expires_at, t) ELSE Undef]]

\* the view a render of useModelsWithState returns
View == ModelsWithState(ModelsOf(installedData), ModelsOf(runningData), now)

\* the daemon installs, deletes, loads or unloads models
DaemonChange ==
  /\ epoch < MaxEpoch
  /\ epoch' = epoch + 1
  /\ \E t \in SUBSET ModelNames, p \in SUBSET ModelNames :
       /\ <<t, p>> # <<tags, ps>>
       /\ tags' = t /\ ps' = p
  /\ UNCHANGED <<installedData, runningData>>
  /\ UNCHANGED <<dmVars, streamVars, settingsVars>>

\* a fetch of '/api/models' (refreshInterval or mutate) is answered: 200 with
\* the list, or the handler's 500 body; SWR stores what fetcher resolves to
InstalledAnswered(ok) ==
  /\ installedData' = IF ok THEN ModelsBody(InstalledList(tags), epoch) ELSE ErrorBody(epoch)
  /\ UNCHANGED <<epoch, tags, ps, runningData>>
  /\ UNCHANGED <<dmVars, streamVars, settingsVars>>

\* a fetch of '/api/running' is answered
RunningAnswered(ok) ==
  /\ runningData' = IF ok THEN ModelsBody(RunningList(ps), epoch) ELSE ErrorBody(epoch)
  /\ UNCHANGED <<epoch, tags, ps, installedData>>
  /\ UNCHANGED <<dmVars, streamVars, settingsVars>>

\* fetch() rejects (network error): SWR keeps the data it has and sets error
InstalledRejected ==
  /\ installedData' = [installedData EXCEPT !.error = TRUE]
  /\ UNCHANGED <<epoch, tags, ps, runningData>>
  /\ UNCHANGED <<dmVars, streamVars, settingsVars>>

RunningRejected ==
  /\ runningData' = [runningData EXCEPT !.error = TRUE]
  /\ UNCHANGED <<epoch, tags, ps, installedData>>
  /\ UNCHANGED <<dmVars, streamVars, settingsVars>>

ModelsStep ==
  \/ DaemonChange
  \/ \E ok \in BOOLEAN : InstalledAnswered(ok) \/ RunningAnswered(ok)
  \/ InstalledRejected \/ RunningRejected

NextModels == ModelsStep

Models == Init /\ [][NextModels]_vars


\* ------------------------------------------------------ the join alone
MaxList == 2
InstalledLists ==
  UNION {[1..n -> {InstalledModel(m, DiskSize) : m \in ModelNames}] : n \in 0..MaxList}
RunningRecords ==
  {RunningModel(m, RamSize, v, e) : m \in ModelNames, v \in VramSizes, e \in ExpiryTimes}
RunningLists == UNION {[1..n -> RunningRecords] : n \in 0..MaxList}

\* useModelsWithState for any data the two hooks may hold
JoinInit ==
  /\ DownloadsInit
  /\ DaemonInit
  /\ installedData \in {NoData, ErrorBody(0)} \cup {ModelsBody(l, 0) : l \in InstalledLists}
  /\ runningData \in {NoData, ErrorBody(0)} \cup {ModelsBody(l, 0) : l \in RunningLists}
  /\ StreamOff
  /\ SettingsInit

\* the page renders again later
NextJoin == Tick

Join == JoinInit /\ [][NextJoin]_vars


\* ------------------------------------- one pull stream, byte by byte
MaxText == 2

\* The daemon's bytes: "nl" is the newline, and the daemon's JSON objects are
\* texts of two bytes each, so that a chunk may end inside an object.
FullLine == JsonLine("downloading", 2, 2, NoStr)
FullText == <<"a", "b">>
HalfText == <<"c", "d">>
SuccessText == <<"s", "u">>
LineTexts == {FullText, HalfText, SuccessText}

\* JSON.parse(line); a text that is no complete object throws
ParseLine(line) ==
  IF line = FullText THEN FullLine
  ELSE IF line = HalfText THEN HalfLine
  ELSE IF line = SuccessText THEN SuccessLine
  ELSE BadLine

RECURSIVE Flatten(_)
Flatten(ss) == IF ss = <<>> THEN <<>> ELSE Head(ss) \o Flatten(Tail(ss))

\* well-formed streams: up to MaxText objects, each followed by a newline,
\* and possibly the beginning of another object, or an object, without one
Inputs ==
  {Flatten([i \in DOMAIN ls |-> ls[i] \o <<"nl">>]) \o rest :
     ls \in UNION {[1..n -> LineTexts] : n \in 0..MaxText},
     rest \in {<<>>, <<"a">>, FullText}}

\* a line that is no JSON
BadText == <<"x">>

\* streams with a malformed line between well-formed lines
LinesIn(ls) == Flatten([i \in DOMAIN ls |-> ls[i] \o <<"nl">>])
MalformedInputs ==
  {LinesIn(pre) \o BadText \o <<"nl">> \o LinesIn(post) :
     pre \in UNION {[1..n -> LineTexts] : n \in 1..(MaxText - 1)},
     post \in UNION {[1..n -> LineTexts] : n \in 1..(MaxText - 1)}}

\* every way of cutting text into the chunks reader.read() returns
RECURSIVE Chunkings(_)
Chunkings(text) ==
  IF text = <<>> THEN {<<>>}
  ELSE UNION {{<<SubSeq(text, 1, k)>> \o rest :
                 rest \in Chunkings(SubSeq(text, k + 1, Len(text)))} : k \in 1..Len(text)}

\* text.split('\n')
RECURSIVE Split(_)
Split(text) ==
  IF text = <<>> THEN << <<>> >>
  ELSE LET rest == Split(Tail(text)) IN
       IF Head(text) = "nl" THEN << <<>> >> \o rest
       ELSE << <<Head(text)>> \o Head(rest) >> \o Tail(rest)

\* a loop that reports a line it cannot parse instead of skipping it
RECURSIVE EventsOfStrict(_)
EventsOfStrict(lines) ==
  IF lines = <<>> THEN <<>>
  ELSE (IF Head(lines) # <<>>
          THEN IF ParseLine(Head(lines)).json
                 THEN <<FormatProgress(ParseLine(Head(lines)))>>
                 ELSE <<ErrorEvent(StreamErrorText, FALSE)>>
          ELSE <<>>)
       \o EventsOfStrict(Tail(lines))

\* the events written for the complete lines of a chunk
RECURSIVE EventsOf(_)
EventsOf(lines) ==
  IF lines = <<>> THEN <<>>
  ELSE (IF Head(lines) # <<>> /\ ParseLine(Head(lines)).json
          THEN <<FormatProgress(ParseLine(Head(lines)))>> ELSE <<>>)
       \o EventsOf(Tail(lines))

StreamInit ==
  /\ DownloadsInit
  /\ DaemonInit
  /\ installedData = NoData
  /\ runningData = NoData
  /\ input \in Inputs \cup MalformedInputs
  /\ wire \in Chunkings(input)
  /\ buffer = <<>>
  /\ out = <<>>
  /\ phase = "reading"
  /\ applied = 0
  /\ item = [NewDownload(1, MakeId("llama3.2", 0), "llama3.2") EXCEPT !.status = "downloading"]
  /\ SettingsInit

\* the handler's read loop for one chunk: buffer += chunk, split, pop
ProxyRead ==
  /\ phase = "reading"
  /\ wire # <<>>
  /\ LET lines == Split(buffer \o Head(wire)) IN
     /\ buffer' = lines[Len(lines)]
     /\ out' = out \o EventsOf(SubSeq(lines, 1, Len(lines) - 1))
  /\ wire' = Tail(wire)
  /\ UNCHANGED <<input, phase, applied, item>>
  /\ UNCHANGED <<dmVars, aggVars, settingsVars>>

\* reader.read() reports done: the remaining buffer, the completion event, res.end()
ProxyReadDone ==
  /\ phase = "reading"
  /\ wire = <<>>
  /\ out' = out \o (IF buffer # <<>> /\ ParseLine(buffer).json
                       THEN <<FormatRemaining(ParseLine(buffer))>> ELSE <<>>)
                 \o <<CompletionEvent>>
  /\ phase' = "ended"
  /\ UNCHANGED <<input, wire, buffer, applied, item>>
  /\ UNCHANGED <<dmVars, aggVars, settingsVars>>

\* the page processes the next event; the data.error branch returns
PageEvent ==
  /\ applied < Len(out)
  /\ item.status # "error"
  /\ LET e == out[applied + 1] IN
     item' = IF e.error # NoStr THEN ErrorUpdates(item, e.error) ELSE ProgressUpdates(item, e)
  /\ applied' = applied + 1
  /\ UNCHANGED <<input, wire, buffer, out, phase>>
  /\ UNCHANGED <<dmVars, aggVars, settingsVars>>

\* the page's reader.read() reports done: the updater after the loop
PageStreamEnd ==
  /\ phase = "ended"
  /\ applied = Len(out)
  /\ item' = MarkCompleted(item, item.id)
  /\ phase' = "done"
  /\ UNCHANGED <<input, wire, buffer, out, applied>>
  /\ UNCHANGED <<dmVars, aggVars, settingsVars>>

NextStream == ProxyRead \/ ProxyReadDone \/ PageEvent \/ PageStreamEnd

Stream == StreamInit /\ [][NextStream]_vars


\* ------------------------------------------------------- the API URL setting
DefaultUrl == "http://localhost:11434/api"
CustomUrl == "http://gpu-box:11434/api"
InvalidUrl == "gpu-box"
\* what the settings form may hold when it is saved
UrlInputs == {DefaultUrl, CustomUrl, InvalidUrl}

\* new URL(customUrl) does not throw
ValidUrl(u) == u \in {DefaultUrl, CustomUrl}

\* getOllamaApiUrl(req), header being req.headers['x-ollama-api-url']
GetOllamaApiUrl(header) ==
  IF header # NoStr /\ ValidUrl(header) THEN header ELSE DefaultUrl

\* the requests whose headers fetcher builds, and those made by a plain fetch
\* with only a Content-Type header
FetcherKinds == {"models", "running"}
PlainKinds == {"pull-stream", "chat", "show", "generate", "delete", "create"}

\* the x-ollama-api-url header the page sends with a request
HeaderOf(kind) == IF kind \in FetcherKinds THEN apiUrl ELSE NoStr

\* handleSave: updateSettings({ apiUrl }) stores it, and the page reloads
HandleSave(u) ==
  /\ apiUrl' = u
  /\ UNCHANGED routed
  /\ UNCHANGED <<dmVars, aggVars, streamVars>>

\* the page issues a request and the API route picks the daemon's URL
Request(kind) ==
  /\ routed' = [kind |-> kind, saved |-> apiUrl, target |-> GetOllamaApiUrl(HeaderOf(kind))]
  /\ UNCHANGED apiUrl
  /\ UNCHANGED <<dmVars, aggVars, streamVars>>

NextSettings ==
  \/ \E u \in UrlInputs : HandleSave(u)
  \/ \E kind \in FetcherKinds \cup PlainKinds : Request(kind)

Settings == Init /\ [][NextSettings]_vars

\* ------------------------------------------------------ the chat stream
\* The daemon's chat lines are JSON objects followed by a newline; as bytes
\* each object is a text of two tokens, so that a read may end inside it.
\* HiText and YoText carry message.content "Hi" and "yo", EndText is the last
\* object of an answer, { done: true } with an empty content.
HiText == <<"h", "i">>
YoText == <<"y", "o">>
EndText == <<"e", "n">>
ChatTexts == {HiText, YoText, EndText}
ChatObject(content) == [json |-> TRUE, content |-> content]
NoObject == [json |-> FALSE, content |-> NoStr]

\* JSON.parse(text); a text that is no complete object throws
ChatParse(text) ==
  IF text = HiText THEN ChatObject("Hi")
  ELSE IF text = YoText THEN ChatObject("yo")
  ELSE IF text = EndText THEN ChatObject(NoStr)
  ELSE NoObject

\* JSON.stringify(data)
ChatStringify(data) ==
  IF data.content = "Hi" THEN HiText
  ELSE IF data.content = "yo" THEN YoText
  ELSE EndText

\* the 'data: ' prefix and the text '[DONE]', one token each
DataPrefix == "data"
DoneText == <<"DONE">>

\* what the daemon sends for an answer: one to MaxText lines
ChatInputs == {LinesIn(ls) : ls \in UNION {[1..n -> ChatTexts] : n \in 1..MaxText}}

\* the frames the handler writes for the lines of one chunk:
\* chunk.split('\n').filter(line => line.trim()), JSON.parse in a try
RECURSIVE ChatFramesOf(_)
ChatFramesOf(lines) ==
  IF lines = <<>> THEN <<>>
  ELSE (IF Head(lines) # <<>> /\ ChatParse(Head(lines)).json
          THEN <<DataPrefix>> \o ChatStringify(ChatParse(Head(lines))) \o <<"nl", "nl">>
          ELSE <<>>)
       \o ChatFramesOf(Tail(lines))

\* the contents handleSubmit appends for the lines of one chunk:
\* filter(line => line.startsWith("data: ")), slice(6), skip [DONE],
\* JSON.parse in a try, if (parsed.message?.content)
RECURSIVE ChatContentsOf(_)
ChatContentsOf(lines) ==
  IF lines = <<>> THEN <<>>
  ELSE (IF /\ Head(lines) # <<>>
           /\ Head(Head(lines)) = DataPrefix
           /\ Tail(Head(lines)) # DoneText
           /\ ChatParse(Tail(Head(lines))).json
           /\ ChatParse(Tail(Head(lines))).content # NoStr
          THEN <<ChatParse(Tail(Head(lines))).content>>
          ELSE <<>>)
       \o ChatContentsOf(Tail(lines))

\* input: the daemon's bytes; wire: the chunks the handler's reads return;
\* out: the bytes the handler wrote that the page has not read yet;
\* item: the contents appended to fullContent so far
ChatInit ==
  /\ DownloadsInit
  /\ DaemonInit
  /\ installedData = NoData
  /\ runningData = NoData
  /\ input \in ChatInputs
  /\ wire \in Chunkings(input)
  /\ buffer = <<>>
  /\ out = <<>>
  /\ phase = "chat"
  /\ applied = 0
  /\ item = <<>>
  /\ SettingsInit

\* the handler's read loop for one chunk
ChatProxyRead ==
  /\ phase = "chat"
  /\ wire # <<>>
  /\ out' = out \o ChatFramesOf(Split(Head(wire)))
  /\ wire' = Tail(wire)
  /\ UNCHANGED <<input, buffer, phase, applied, item>>
  /\ UNCHANGED <<dmVars, aggVars, settingsVars>>

\* reader.read() reports done: res.write('data: [DONE]\n\n'); res.end()
ChatProxyDone ==
  /\ phase = "chat"
  /\ wire = <<>>
  /\ out' = out \o <<DataPrefix>> \o DoneText \o <<"nl", "nl">>
  /\ phase' = "chatEnded"
  /\ UNCHANGED <<input, wire, buffer, applied, item>>
  /\ UNCHANGED <<dmVars, aggVars, settingsVars>>

\* the page's read returns the next k bytes of the response
ChatPageRead(k) ==
  /\ phase \in {"chat", "chatEnded"}
  /\ k \in 1..Len(out)
  /\ item' = item \o ChatContentsOf(Split(SubSeq(out, 1, k)))
  /\ out' = SubSeq(out, k + 1, Len(out))
  /\ applied' = applied + 1
  /\ UNCHANGED <<input, wire, buffer, phase>>
  /\ UNCHANGED <<dmVars, aggVars, settingsVars>>

\* the page's reader.read() reports done
ChatPageDone ==
  /\ phase = "chatEnded"
  /\ out = <<>>
  /\ phase' = "chatDone"
  /\ UNCHANGED <<input, wire, buffer, out, applied, item>>
  /\ UNCHANGED <<dmVars, aggVars, settingsVars>>

NextChat ==
  \/ ChatProxyRead \/ ChatProxyDone
  \/ \E k \in 1..Len(out) : ChatPageRead(k)
  \/ ChatPageDone

Chat == ChatInit /\ [][NextChat]_vars


\* ------------------------------------------------------------ properties
\* the status of the task startDownload call r created, in the list ds
StatusOf(ds, r) ==
  IF \E i \in DOMAIN ds : ds[i].task = r
    THEN ds[CHOOSE i \in DOMAIN ds : ds[i].task = r].status
    ELSE "absent"

ItemOf(ds, r) == ds[CHOOSE i \in DOMAIN ds : ds[i].task = r]

\* C1: no transition leaves a terminal state: a task whose status is completed,
\* error or cancelled keeps that status in every step, as long as it is listed.
TerminalIsFinal ==
  [][\A r \in Routines :
       StatusOf(downloads, r) \in TerminalStatus /\ StatusOf(downloads', r) # "absent"
         => StatusOf(downloads', r) = StatusOf(downloads, r)]_vars

\* C2: a task cancelled while Downloading is Cancelled from then on, as long as
\* it is listed: it is never Completed or Failed afterwards, and its routine ended.
CancelledStays ==
  \A r \in Routines :
    hist[r].asked =>
      /\ pc[r] = "done"
      /\ StatusOf(downloads, r) \in {"cancelled", "absent"}

\* C3: the ids returned by startDownload are pairwise distinct.
UniqueIds ==
  \A r1, r2 \in 1..created : r1 # r2 => rid[r1] # rid[r2]

\* C4: two startDownload calls for the same model name return distinct ids, each
\* has its own visible task, and the step in which one of them is cancelled
\* leaves the other's task and its controller unchanged.
IndependentTasks ==
  [][\A r1, r2 \in 1..created : r1 # r2 /\ ModelOf(r1) = ModelOf(r2) =>
       /\ rid[r1] # rid[r2]
       /\ (aborted'[r1] /\ ~aborted[r1]
           /\ StatusOf(downloads, r2) # "absent" /\ StatusOf(downloads', r2) # "absent")
          => /\ ItemOf(downloads', r2) = ItemOf(downloads, r2)
             /\ abortControllers'[rid[r2]] = abortControllers[rid[r2]]]_vars

\* C5: a task is Completed only if the daemon's stream held a status 'success'.
CompletedOnlySuccess ==
  \A i \in DOMAIN downloads :
    downloads[i].status = "completed" => hist[downloads[i].task].success

\* C6: when the daemon's stream held an error object, the task does not end
\* Completed: it ends Failed with the daemon's error (or the message of a broken
\* connection), unless the user cancelled it.
DaemonErrorSurfaces ==
  \A i \in DOMAIN downloads :
    LET d == downloads[i] IN
    pc[d.task] = "done" /\ hist[d.task].error =>
      /\ d.status \in {"error", "cancelled"}
      /\ d.status = "error" => d.error \in {DaemonErrorText, NetworkErrorText}

OneRefreshPerCompletion ==
  \A i \in DOMAIN downloads :
    downloads[i].status = "completed" /\ pc[downloads[i].task] = "done"
      => refreshes[downloads[i].task] = 1

\* C9: a step in which a task enters Failed or Cancelled calls no mutate.
NoRefreshOnFailure ==
  [][(\E r \in Routines :
        /\ StatusOf(downloads', r) \in {"error", "cancelled"}
        /\ StatusOf(downloads', r) # StatusOf(downloads, r))
      => refreshes' = refreshes]_vars

\* one task is Failed and another Cancelled, and neither routine refreshed
FailedAndCancelledSeen ==
  \E i, j \in DOMAIN downloads :
    /\ downloads[i].status = "error" /\ downloads[j].status = "cancelled"
    /\ refreshes[downloads[i].task] = 0 /\ refreshes[downloads[j].task] = 0

\* C10: every view joins an installed list and a running list that were made
\* from the same state of the daemon (the same refresh cycle).
ViewFromOneCycle ==
  installedData.kind = "models" /\ runningData.kind = "models"
    => installedData.at = runningData.at

\* C11: a refresh in which the fetch of either list fails (the handler answers
\* 500, or fetch rejects) leaves the unified view as it was.
FailedRefreshKeepsView ==
  [][(InstalledAnswered(FALSE) \/ RunningAnswered(FALSE) \/ InstalledRejected \/ RunningRejected)
       => View' = View]_vars

\* the running record the view's i-th model is joined with, if any
Matches(i) ==
  {j \in DOMAIN ModelsOf(runningData) : ModelsOf(runningData)[j].model = View[i].name}

\* C12: a model of the view is loaded exactly when the running list holds a
\* record whose model equals its name; a loaded model's VRAM, RAM and expiry come
\* from one such record, and a model that is not loaded has none of them.
JoinByExactName ==
  /\ Len(View) = Len(ModelsOf(installedData))
  /\ \A i \in DOMAIN View :
       LET m == View[i] IN
       /\ m.name = ModelsOf(installedData)[i].name
       /\ m.loaded <=> Matches(i) # {}
       /\ m.loaded =>
            \E j \in Matches(i) :
              LET rec == ModelsOf(runningData)[j] IN
              /\ m.vram_gb = BytesToGB(rec.size_vram)
              /\ m.ram_gb = BytesToGB(rec.size)
              /\ m.expires_at = rec.expires_at
              /\ m.expires_in_seconds \in {Undef, (rec.expires_at - now) \div 1000}
              /\ m.expires_in_seconds = Undef <=>
                   (rec.expires_at = Undef \/ rec.expires_at - now < 1000)
       /\ ~m.loaded =>
            /\ m.vram_gb = Undef /\ m.ram_gb = Undef
            /\ m.expires_at = Undef /\ m.expires_in_seconds = Undef

\* the view holds a loaded model with 4 GB of VRAM that expires in one second
\* and a model that is not loaded, while the running list holds another record
LoadedAndUnloadedSeen ==
  /\ Len(ModelsOf(runningData)) = 2
  /\ \E i, k \in DOMAIN View :
       /\ View[i].loaded /\ View[i].vram_gb = 4000 /\ View[i].expires_in_seconds = 1
       /\ ~View[k].loaded

\* C13: once a download has been cancelled while the proxy reads the daemon's
\* pull stream, the proxy eventually stops reading and ends: the upstream
\* request is closed.
CancelClosesUpstream ==
  \A r \in Routines : (aborted[r] /\ px[r] = "stream") ~> (px[r] = "ended")

\* C14: cancelDownload(id) for an id no listed task has, or whose tasks are all
\* terminal, leaves the task list exactly as it was.
CancelIsNoOp ==
  [][\A id \in Ids :
       (/\ CancelDownload(id)
        /\ \A i \in DOMAIN downloads :
             downloads[i].id = id => downloads[i].status \in TerminalStatus)
         => downloads' = downloads]_vars

\* C15: clearDownload(id) leaves no task with that id in the list and ends, by
\* abort, the routine of every task with that id that was Pending or
\* Downloading; a task that has left the list is in no later list.
ClearRemovesForGood ==
  [][/\ \A id \in Ids : ClearDownload(id) =>
          /\ \A i \in DOMAIN downloads' : downloads'[i].id # id
          /\ \A r \in 1..created :
               rid[r] = id /\ StatusOf(downloads, r) \in ActiveStatus
                 => aborted'[r] /\ pc'[r] = "done"
     /\ \A r \in 1..created :
          StatusOf(downloads, r) = "absent" => StatusOf(downloads', r) = "absent"]_vars

\* C16: clearCompleted removes every task that is Completed, Failed or
\* Cancelled and no other: each Pending or Downloading task stays listed with
\* all its fields unchanged, in the same order.
ClearsExactlyTerminal ==
  [][ClearCompleted =>
       /\ \A r \in 1..created :
            /\ StatusOf(downloads, r) \in TerminalStatus => StatusOf(downloads', r) = "absent"
            /\ StatusOf(downloads, r) \in ActiveStatus =>
                 /\ StatusOf(downloads', r) # "absent"
                 /\ ItemOf(downloads', r) = ItemOf(downloads, r)
            /\ StatusOf(downloads, r) = "absent" => StatusOf(downloads', r) = "absent"
       /\ \A i, j \in DOMAIN downloads' :
            i < j => downloads'[i].task < downloads'[j].task]_vars

\* a completed task whose routine still reads, with its controller registered,
\* has left the list without an abort (only clearCompleted does that), and an
\* active task is still listed
TerminalSweptSeen ==
  \E r, q \in 1..created :
    /\ StatusOf(downloads, r) = "absent"
    /\ pc[r] = "read" /\ ~aborted[r] /\ abortControllers[rid[r]] = r
    /\ StatusOf(downloads, q) \in ActiveStatus

\* C17: isDownloading(modelName) is true exactly when the list holds a task
\* with that model name that is not Completed, Failed or Cancelled.
IsDownloadingIffActive ==
  \A n \in Names :
    IsDownloading(n) <=>
      Cardinality({r \in 1..created :
                     /\ ModelOf(r) = n
                     /\ StatusOf(downloads, r) \notin TerminalStatus \cup {"absent"}}) >= 1

\* one model name has a Pending task and is downloading, the other has only a
\* Failed task and is not
ActiveAndInactiveSeen ==
  \E n, k \in Names :
    /\ IsDownloading(n)
    /\ \E i \in DOMAIN downloads : downloads[i].modelName = n /\ downloads[i].status = "pending"
    /\ ~IsDownloading(k)
    /\ \E i \in DOMAIN downloads : downloads[i].modelName = k /\ downloads[i].status = "error"

\* C18: a Completed task has progress 100, and a step changes a listed task's
\* progress only while the task is Downloading: the progress of a Completed,
\* Failed or Cancelled task (and of a Pending one) stays as it is.
ProgressFrozenWhenTerminal ==
  [][\A r \in 1..created :
       StatusOf(downloads', r) # "absent" =>
         /\ StatusOf(downloads', r) = "completed" => ItemOf(downloads', r).progress = 100
         /\ StatusOf(downloads, r) \notin {"downloading", "absent"} =>
              ItemOf(downloads', r).progress = ItemOf(downloads, r).progress]_vars

\* C19: no step lowers the progress of a task that is and stays Downloading.
ProgressMonotone ==
  [][(item.status = "downloading" /\ item'.status = "downloading")
       => item'.progress >= item.progress]_vars

\* the positions of the newlines of the input, and its k-th complete line
Newlines == {i \in DOMAIN input : input[i] = "nl"}
CompleteLine(k) ==
  LET ends == {i \in Newlines : Cardinality({j \in Newlines : j <= i}) = k}
      e == CHOOSE i \in ends : TRUE
      b == IF k = 1 THEN 0
           ELSE CHOOSE i \in Newlines : Cardinality({j \in Newlines : j <= i}) = k - 1 IN
  SubSeq(input, b + 1, e - 1)

\* C20: whatever the chunks, the events written for a stream are exactly one
\* progress event per complete line of the input, in the order of the lines.
OneEventPerLine ==
  input \in Inputs /\ phase \in {"ended", "done"} =>
    out = [k \in 1..Cardinality(Newlines) |-> FormatProgress(ParseLine(CompleteLine(k)))]

\* the events of the complete lines of the input that are JSON, in order
WellFormedEvents ==
  LET ks == {k \in 1..Cardinality(Newlines) : ParseLine(CompleteLine(k)).json}
      nth(n) == CHOOSE k \in ks : Cardinality({j \in ks : j <= k}) = n IN
  [n \in 1..Cardinality(ks) |-> FormatProgress(ParseLine(CompleteLine(nth(n))))]

\* C21: for an input with a malformed line between well-formed lines, the
\* events written for its lines are those of the well-formed lines, in order
\* (what follows them is written at the end of the stream), none of them
\* reports an error, and the task does not become Failed.
MalformedLineSkipped ==
  input \in MalformedInputs =>
    /\ phase = "reading" => \E n \in 0..Len(WellFormedEvents) : out = SubSeq(WellFormedEvents, 1, n)
    /\ phase # "reading" =>
         /\ Len(out) >= Len(WellFormedEvents)
         /\ SubSeq(out, 1, Len(WellFormedEvents)) = WellFormedEvents
    /\ \A i \in DOMAIN out : out[i].error = NoStr
    /\ item.status # "error"

\* a stream with a malformed line has ended and the page has processed the
\* events of the well-formed lines before and after it
MalformedLineSeen ==
  /\ input \in MalformedInputs
  /\ phase = "done" /\ applied >= 2
  /\ item.status = "completed"

\* C22: a request issued while a valid custom URL is stored reaches the daemon
\* at that URL, whatever the kind of the request.
SavedUrlApplies ==
  routed.kind # "none" /\ routed.saved # NoStr /\ ValidUrl(routed.saved)
    => routed.target = routed.saved

\* C23: the data left in the buffer after the last newline produces no event:
\* what the handler writes when the stream ends is what it writes when the
\* buffer is empty, its closing event alone.
TrailingDataDiscarded ==
  [][ProxyReadDone => out' = out \o <<CompletionEvent>>]_vars

\* C24: completedAt is set exactly once, on entering a terminal status: a listed
\* task has no completedAt while Pending or Downloading, has one in every
\* terminal status, and no step changes a completedAt that is set.
CompletedAtSetOnce ==
  [][\A r \in 1..created :
       StatusOf(downloads', r) # "absent" =>
         /\ StatusOf(downloads', r) \in ActiveStatus => ItemOf(downloads', r).completedAt = Undef
         /\ StatusOf(downloads', r) \in TerminalStatus => ItemOf(downloads', r).completedAt # Undef
         /\ (StatusOf(downloads, r) # "absent" /\ ItemOf(downloads, r).completedAt # Undef) =>
              ItemOf(downloads', r).completedAt = ItemOf(downloads, r).completedAt]_vars

\* C25: a listed task whose error field is set has status error.
ErrorOnlyWhenFailed ==
  \A i \in DOMAIN downloads : downloads[i].error # NoStr => downloads[i].status = "error"

\* C26: for every model of the view, expires_in_seconds is the whole seconds
\* from now to expires_at, at least 0, when expires_at is present and later than
\* now; it is null when expires_at is absent or not later than now; it is never
\* negative.
ExpiresInWholeSeconds ==
  \A i \in DOMAIN View :
    LET m == View[i]
        secs == (m.expires_at - now) \div 1000 IN
    /\ (m.expires_at # Undef /\ m.expires_at > now) =>
         m.expires_in_seconds = (IF secs > 0 THEN secs ELSE 0)
    /\ (m.expires_at = Undef \/ m.expires_at <= now) => m.expires_in_seconds = Undef
    /\ m.expires_in_seconds = Undef \/ m.expires_in_seconds >= 0

\* C27: in every state, for every listed task that is Pending or Downloading,
\* cancelDownload of its id can be taken and leaves that task Cancelled in that
\* one step, whatever the proxy and the daemon have done so far: it needs no
\* answer and no further chunk from them.
ActiveIsCancellable ==
  \A i \in DOMAIN downloads :
    downloads[i].status \in ActiveStatus =>
      ENABLED (CancelDownload(downloads[i].id) /\ downloads'[i].status = "cancelled")

\* C28: when the daemon closes the pull stream the proxy ends its response in
\* that step of its handler, and under fair scheduling of the page and of the
\* handler, once the proxy has ended its response the supervising routine
\* finishes and leaves its task in a terminal status, or cleared from the list:
\* it does not wait for ever.
StreamCloseTerminates ==
  /\ [][\A rest \in Trailing : ProxyEnd(1, rest) => (px'[1] = "ended" /\ closed'[1])]_vars
  /\ closed[1] ~>
       (pc[1] = "done" /\ StatusOf(downloads, 1) \in TerminalStatus \cup {"absent"})

\* the daemon closed a stream the proxy had accepted, and the routine has
\* finished with its task Completed
StreamClosedAndDone ==
  /\ px[1] = "ended" /\ closed[1] /\ resp[1] = "ok" /\ ~aborted[1]
  /\ pc[1] = "done" /\ StatusOf(downloads, 1) = "completed"

\* C29: a step of the supervising routine of one task (an event applied, the
\* response head, the end of the stream, a failure) and a cancellation of one
\* task leave every field of every other listed task unchanged.
OnlyOwnRoutineUpdates ==
  [][\A r \in 1..created :
       (\/ ClientFetchFail(r) \/ ClientNotOk(r) \/ ClientFetchOk(r) \/ ClientEvent(r)
        \/ ClientStreamEnd(r) \/ ClientReadError(r)
        \/ (CancelDownload(rid[r]) /\ abortControllers[rid[r]] = r))
         => \A i \in DOMAIN downloads :
              downloads[i].task # r =>
                (i \in DOMAIN downloads' /\ downloads'[i] = downloads[i])]_vars

\* C30: when the chat stream has ended, the chat view has received the content
\* of every line the daemon sent that carries one, once each and in the
\* daemon's order, however the bytes were cut into reads on either side.
ChatDeliversEveryLine ==
  phase = "chatDone" => item = ChatContentsOf(Split(ChatFramesOf(Split(input))))
====
